---------------------------- MODULE Spec2Model ----------------------------
(***************************************************************************)
(* Expense tracker bot (src/bot.py): the per-user conversation             *)
(* (start -> amount -> category -> subcategory -> [label] -> insert),      *)
(* the expenses table, and the /needs, /wants, /undo, /restart commands.   *)
(*                                                                         *)
(* Updates are processed one at a time (the Application is built without   *)
(* concurrent_updates), so each handler is one atomic step.  A handler     *)
(* that raises leaves the conversation state as it was (the                *)
(* ConversationHandler only records the state a handler returns), keeps    *)
(* whatever it already wrote to user_data, and sends nothing: no error     *)
(* handler is registered.  Every user talks to the bot in one chat.        *)
(* SpecInterleaved alone lets the handling of updates overlap: there the   *)
(* two store calls of undo are two steps and other handlers run between.   *)
(*                                                                         *)
(* A text is a sequence of one-character strings; the arrow character of   *)
(* the back button is written "ARROW".                                     *)
(***************************************************************************)
EXTENDS Integers, Sequences, FiniteSets, TLC

VARIABLES conv, user_data, expenses, next_id, reply, undoing

vars == <<conv, user_data, expenses, next_id, reply, undoing>>

(***************************************************************************)
(* Bounds of the model.                                                    *)
(***************************************************************************)
\* Highest id the SERIAL sequence hands out in a run of Spec and of
\* SpecUsers (bounds the number of inserts).
MaxId == 1

MaxIdUsers == 2

\* Telegram user ids of the modelled users.
Users == {1, 2}

(***************************************************************************)
(* Texts and the str methods the handlers use.                             *)
(***************************************************************************)
Whitespace == {" ", "\t", "\n"}

UpperAlpha == <<"A","B","C","D","E","F","G","H","I","J","K","L","M",
                "N","O","P","Q","R","S","T","U","V","W","X","Y","Z">>

LowerAlpha == <<"a","b","c","d","e","f","g","h","i","j","k","l","m",
                "n","o","p","q","r","s","t","u","v","w","x","y","z">>

\* str.lower() on one character.
LowerChar(c) ==
    IF \E i \in DOMAIN UpperAlpha : UpperAlpha[i] = c
    THEN LowerAlpha[CHOOSE i \in DOMAIN UpperAlpha : UpperAlpha[i] = c]
    ELSE c

\* str.lower()
Lower(s) == [i \in DOMAIN s |-> LowerChar(s[i])]

RECURSIVE LStrip(_)
LStrip(s) ==
    IF s # <<>> /\ Head(s) \in Whitespace THEN LStrip(Tail(s)) ELSE s

RECURSIVE RStrip(_)
RStrip(s) ==
    IF s # <<>> /\ s[Len(s)] \in Whitespace
    THEN RStrip(SubSeq(s, 1, Len(s) - 1))
    ELSE s

\* str.strip()
Strip(s) == RStrip(LStrip(s))

\* StartsWith looking at the end of s (str.endswith).
EndsWith(s, prefix) ==
    /\ Len(s) >= Len(prefix)
    /\ SubSeq(s, Len(s) - Len(prefix) + 1, Len(s)) = prefix

\* str.startswith(prefix)
StartsWith(s, prefix) ==
    /\ Len(s) >= Len(prefix)
    /\ SubSeq(s, 1, Len(prefix)) = prefix

\* First index of s holding a character of cs, 0 when there is none.
IndexOf(s, cs) ==
    IF \E i \in DOMAIN s : s[i] \in cs
    THEN CHOOSE i \in DOMAIN s : s[i] \in cs /\ \A j \in 1..(i - 1) : s[j] \notin cs
    ELSE 0

(***************************************************************************)
(* decimal.Decimal: a value is sign, coefficient, exponent (the number     *)
(* (-1)^sign * coef * 10^exp) or one of the special values.                *)
(***************************************************************************)
Digits == {"0","1","2","3","4","5","6","7","8","9"}

DigitVal(c) ==
    CASE c = "0" -> 0 [] c = "1" -> 1 [] c = "2" -> 2 [] c = "3" -> 3
      [] c = "4" -> 4 [] c = "5" -> 5 [] c = "6" -> 6 [] c = "7" -> 7
      [] c = "8" -> 8 [] c = "9" -> 9

IsDigits(s) == \A i \in DOMAIN s : s[i] \in Digits

RECURSIVE ToNat(_)
ToNat(s) ==
    IF s = <<>> THEN 0
    ELSE 10 * ToNat(SubSeq(s, 1, Len(s) - 1)) + DigitVal(s[Len(s)])

RECURSIVE Pow10(_)
Pow10(n) == IF n <= 0 THEN 1 ELSE 10 * Pow10(n - 1)

RECURSIVE NumDigits(_)
NumDigits(n) == IF n < 10 THEN 1 ELSE 1 + NumDigits(n \div 10)

\* The value of a missing user_data["amount"].
NoAmount == [special |-> "None", sign |-> 0, coef |-> 0, exp |-> 0]

\* Decimal(text) raised InvalidOperation (conversion syntax).
BadDecimal == [special |-> "Invalid", sign |-> 0, coef |-> 0, exp |-> 0]

Finite(sign, coef, exp) == [special |-> "", sign |-> sign, coef |-> coef, exp |-> exp]

\* The part of a numeric string after the sign: digits with at most one
\* point and at least one digit, then an optional exponent.
ParseUnsigned(sign, body) ==
    LET e     == IndexOf(body, {"e", "E"})
        mant  == IF e = 0 THEN body ELSE SubSeq(body, 1, e - 1)
        etxt  == IF e = 0 THEN <<>> ELSE SubSeq(body, e + 1, Len(body))
        esign == IF etxt # <<>> /\ Head(etxt) \in {"+", "-"} THEN Head(etxt) ELSE "+"
        edig  == IF etxt # <<>> /\ Head(etxt) \in {"+", "-"} THEN Tail(etxt) ELSE etxt
        p     == IndexOf(mant, {"."})
        ipart == IF p = 0 THEN mant ELSE SubSeq(mant, 1, p - 1)
        fpart == IF p = 0 THEN <<>> ELSE SubSeq(mant, p + 1, Len(mant))
        eval  == IF esign = "-" THEN 0 - ToNat(edig) ELSE ToNat(edig)
    IN  IF /\ IsDigits(ipart) /\ IsDigits(fpart)
           /\ Len(ipart) + Len(fpart) >= 1
           /\ (e # 0 => (edig # <<>> /\ IsDigits(edig)))
        THEN Finite(sign, ToNat(ipart \o fpart), eval - Len(fpart))
        ELSE BadDecimal

\* Decimal(text): surrounding whitespace and underscores are dropped, then
\* an optional sign, then a number, Inf/Infinity or NaN (any case).
ParseDecimal(text) ==
    LET s     == SelectSeq(Strip(text), LAMBDA c : c # "_")
        signed == s # <<>> /\ Head(s) \in {"+", "-"}
        sign  == IF s # <<>> /\ Head(s) = "-" THEN 1 ELSE 0
        body  == IF signed THEN Tail(s) ELSE s
        low   == Lower(body)
    IN  IF low \in {<<"i","n","f">>, <<"i","n","f","i","n","i","t","y">>}
        THEN [special |-> "Inf", sign |-> sign, coef |-> 0, exp |-> 0]
        ELSE IF low \in {<<"n","a","n">>, <<"s","n","a","n">>}
        THEN [special |-> "NaN", sign |-> sign, coef |-> 0, exp |-> 0]
        ELSE ParseUnsigned(sign, body)

\* amt <= 0 raises InvalidOperation: an ordering comparison with a NaN.
LeZeroRaises(d) == d.special = "NaN"

\* amt <= 0
LeZero(d) ==
    IF d.special = "Inf" THEN d.sign = 1
    ELSE d.coef = 0 \/ d.sign = 1


\* Decimal.quantize(Decimal('0.01')) under the default context (precision
\* 28, ROUND_HALF_EVEN): the signed number of cents, or raises
\* InvalidOperation for an infinity and for a result of more than 28 digits.
Quantize(d) ==
    LET drop == (0 - 2) - d.exp
        q    == d.coef \div Pow10(drop)
        r    == d.coef % Pow10(drop)
        half == 5 * Pow10(drop - 1)
        mag  == IF d.exp >= 0 - 2 THEN d.coef * Pow10(d.exp + 2)
                ELSE IF drop > NumDigits(d.coef) THEN 0
                ELSE IF r > half \/ (r = half /\ q % 2 = 1) THEN q + 1
                ELSE q
    IN  IF d.special # "" THEN [raises |-> TRUE, cents |-> 0]
        ELSE IF d.coef = 0 THEN [raises |-> FALSE, cents |-> 0]
        ELSE IF NumDigits(d.coef) + d.exp + 2 > 28 THEN [raises |-> TRUE, cents |-> 0]
        ELSE [raises |-> FALSE, cents |-> IF d.sign = 1 THEN 0 - mag ELSE mag]

\* _fmt_money(x): the text "$" followed by the quantized value.
_fmt_money(x) == Quantize(x)

\* What the column amount NUMERIC(10,2) keeps of a value: the value rounded
\* to two fractional digits, ties away from zero; the INSERT fails for an
\* infinity and when the rounded value does not fit 10 digits.  (A NaN never
\* reaches the store: get_amount rejects it.)
NumericStore(d) ==
    LET drop == (0 - 2) - d.exp
        q    == d.coef \div Pow10(drop)
        r    == d.coef % Pow10(drop)
        half == 5 * Pow10(drop - 1)
        mag  == IF d.exp >= 0 - 2 THEN d.coef * Pow10(d.exp + 2)
                ELSE IF drop > NumDigits(d.coef) THEN 0
                ELSE IF r >= half THEN q + 1
                ELSE q
    IN  IF d.special # "" THEN [ok |-> FALSE, cents |-> 0]
        ELSE IF d.coef = 0 THEN [ok |-> TRUE, cents |-> 0]
        ELSE IF NumDigits(d.coef) + d.exp > 8 THEN [ok |-> FALSE, cents |-> 0]
        ELSE [ok |-> TRUE, cents |-> IF d.sign = 1 THEN 0 - mag ELSE mag]

\* A stored amount (cents) read back as a Decimal with two fractional digits.
FromStore(cents) ==
    IF cents < 0 THEN Finite(1, 0 - cents, 0 - 2) ELSE Finite(0, cents, 0 - 2)

(***************************************************************************)
(* Program constants.                                                      *)
(***************************************************************************)
NEEDS_TARGET == 500

WANTS_TARGET == 300

NEEDS_SUBCATS ==
    << <<"F","o","o","d">>,
       <<"S","u","b","s","c","r","i","p","t","i","o","n">>,
       <<"T","r","a","n","s","p","o","r","t">>,
       <<"G","r","o","c","e","r","i","e","s">>,
       <<"M","i","s","c"," ","N","e","e","d","s">> >>

WANTS_SUBCATS ==
    << <<"D","i","n","i","n","g"," ","O","u","t">>,
       <<"A","l","c","o","h","o","l">>,
       <<"D","a","t","e","s">>,
       <<"G","i","f","t","s">>,
       <<"C","l","o","t","h","e","s">>,
       <<"M","i","s","c"," ","W","a","n","t","s">> >>

needs_ == <<"n","e","e","d","s">>

wants_ == <<"w","a","n","t","s">>

BackToken == <<"ARROW"," ","B","a","c","k">>

MiscPrefix == <<"M","i","s","c">>

\* Conversation states; END also stands for "no conversation".
AMOUNT == 0

CATEGORY == 1

SUBCATEGORY == 2

LABEL == 3

END == 0 - 1

\* x in list
InList(x, list) == \E i \in DOMAIN list : list[i] = x

\* ValidSubcats without the split by category.
AnySubcats(cat) == NEEDS_SUBCATS \o WANTS_SUBCATS

\* NEEDS_SUBCATS if cat == "needs" else WANTS_SUBCATS
ValidSubcats(cat) == IF cat = needs_ THEN NEEDS_SUBCATS ELSE WANTS_SUBCATS

(***************************************************************************)
(* State.                                                                  *)
(***************************************************************************)
\* A key that user_data does not hold / a NULL label.
None == <<"<None>">>

\* context.user_data of a user after clear() (and at start-up): no keys.
EmptyUserData == [amount |-> NoAmount, cat |-> None, subcat |-> None, label |-> None]

\* What the last handled update produced: the handler that ran, the user,
\* the message sent ("" when the handler raised before replying) and the
\* values the message shows.
Reply(handler, uid, text, shown) ==
    [handler |-> handler, uid |-> uid, text |-> text, shown |-> shown]

Raised(handler, uid) == Reply(handler, uid, "", <<>>)

\* The undo handlers that can be in flight at once, and what one holds
\* between its SELECT and its DELETE: the selected row, or nothing when
\* it is not running.
Tasks == {1, 2}

NoUndo == <<>>

Init ==
    /\ conv = [u \in Users |-> END]
    /\ user_data = [u \in Users |-> EmptyUserData]
    /\ expenses = <<>>
    /\ next_id = 1
    /\ reply = Reply("", 0, "", <<>>)
    /\ undoing = [t \in Tasks |-> NoUndo]

(***************************************************************************)
(* Texts the modelled users send, per conversation state: for each state   *)
(* inputs its handler accepts and inputs it rejects.                       *)
(***************************************************************************)
AmountTexts ==
    { <<"1","2",".","5">>,                      \* accepted
      <<" ","0",".","0","0","4">>,              \* accepted, below one cent
      <<"0">>,                                  \* zero
      <<"-","3">>,                              \* negative
      <<"a","b","c">>,                          \* not a number
      <<"I","n","f","i","n","i","t","y">> }     \* not a number, but a Decimal

CategoryTexts ==
    { <<"N","e","e","d","s">>,
      <<" ","w","a","n","t","s"," ">>,
      <<"F","o","o","d">> }

SubcategoryTexts ==
    { <<"F","o","o","d">>,
      <<" ","M","i","s","c"," ","N","e","e","d","s">>,
      <<"G","i","f","t","s">>,
      <<"f","o","o","d">>,
      BackToken }

LabelTexts == { <<" ","l","u","n","c","h"," ">> }

MenuTexts == { <<"h","i">>, <<"1","2",".","5">>, <<"F","o","o","d">> }

(***************************************************************************)
(* The expenses table.                                                     *)
(***************************************************************************)
Row(id, uid, cat, subcat, cents, label) ==
    [id |-> id, user_id |-> uid, category |-> cat, subcategory |-> subcat,
     amount |-> cents, label |-> label]

\* The rows of a user, in table order.
RowsOf(table, uid) == SelectSeq(table, LAMBDA r : r.user_id = uid)

\* SelectLast with the order reversed (ORDER BY id ASC).
SelectFirst(table, uid) ==
    IF \E i \in DOMAIN table : table[i].user_id = uid
    THEN CHOOSE i \in DOMAIN table :
            /\ table[i].user_id = uid
            /\ \A j \in DOMAIN table :
                  table[j].user_id = uid => table[j].id >= table[i].id
    ELSE 0

\* SELECT ... WHERE user_id=uid ORDER BY id DESC LIMIT 1: the index in the
\* table of the selected row, 0 when the user has no row.
SelectLast(table, uid) ==
    IF \E i \in DOMAIN table : table[i].user_id = uid
    THEN CHOOSE i \in DOMAIN table :
            /\ table[i].user_id = uid
            /\ \A j \in DOMAIN table :
                  table[j].user_id = uid => table[j].id <= table[i].id
    ELSE 0

\* DeleteId with id <= in place of id =.
DeleteUpToId(table, id) == SelectSeq(table, LAMBDA r : r.id > id)

\* DELETE FROM expenses WHERE id=...
DeleteId(table, id) == SelectSeq(table, LAMBDA r : r.id # id)

\* DeleteUser without the WHERE clause.
DeleteEveryUser(table, uid) == <<>>

\* DeleteUser that removes only the user's latest row.
DeleteLastOfUser(table, uid) ==
    IF SelectLast(table, uid) = 0 THEN table
    ELSE DeleteId(table, table[SelectLast(table, uid)].id)

\* DELETE FROM expenses WHERE user_id=...
DeleteUser(table, uid) == SelectSeq(table, LAMBDA r : r.user_id # uid)

RECURSIVE SumAmount(_)
SumAmount(rows) ==
    IF rows = <<>> THEN 0 ELSE Head(rows).amount + SumAmount(Tail(rows))

\* GroupBySubcategory without the user_id condition.
GroupEveryUser(table, uid, cat) ==
    LET mine == SelectSeq(table, LAMBDA r : r.category = cat)
        subs == {mine[i].subcategory : i \in DOMAIN mine}
    IN  { <<sc, SumAmount(SelectSeq(mine, LAMBDA r : r.subcategory = sc))>> : sc \in subs }

\* SELECT subcategory, SUM(amount) ... WHERE user_id=uid AND category=cat
\* GROUP BY subcategory: the set of <<subcategory, sum>> rows.
GroupBySubcategory(table, uid, cat) ==
    LET mine == SelectSeq(table, LAMBDA r : r.user_id = uid /\ r.category = cat)
        subs == {mine[i].subcategory : i \in DOMAIN mine}
    IN  { <<sc, SumAmount(SelectSeq(mine, LAMBDA r : r.subcategory = sc))>> : sc \in subs }

(***************************************************************************)
(* The conversation.                                                       *)
(***************************************************************************)
\* /start, from any state (entry point, allow_reentry=True).
start(u) ==
    /\ UNCHANGED undoing
    /\ conv' = [conv EXCEPT ![u] = AMOUNT]
    /\ reply' = Reply("start", u, "How much did you spend?", <<>>)
    /\ UNCHANGED <<user_data, expenses, next_id>>

get_amount(u, text) ==
    /\ UNCHANGED undoing
    /\ conv[u] = AMOUNT
    /\ LET amt == ParseDecimal(text)
           bad == amt.special = "Invalid" \/ LeZeroRaises(amt) \/ LeZero(amt)
       IN  IF bad
           THEN /\ reply' = Reply("get_amount", u, "Please enter a valid positive number.", <<>>)
                /\ UNCHANGED <<conv, user_data>>
           ELSE /\ user_data' = [user_data EXCEPT ![u].amount = amt]
                /\ IF _fmt_money(amt).raises
                   THEN /\ reply' = Raised("get_amount", u)
                        /\ UNCHANGED conv
                   ELSE /\ reply' = Reply("get_amount", u, "Amount noted",
                                          <<_fmt_money(amt).cents>>)
                        /\ conv' = [conv EXCEPT ![u] = CATEGORY]
    /\ UNCHANGED <<expenses, next_id>>

\* get_category that stores the text as sent, not the lower-cased choice.
get_category_raw(u, text) ==
    /\ UNCHANGED undoing
    /\ conv[u] = CATEGORY
    /\ LET choice == Lower(Strip(text))
       IN  IF choice \notin {needs_, wants_}
           THEN /\ reply' = Reply("get_category", u, "Please choose Needs or Wants.", <<>>)
                /\ UNCHANGED <<conv, user_data>>
           ELSE /\ user_data' = [user_data EXCEPT ![u].cat = Strip(text)]
                /\ reply' = Reply("get_category", u, "Pick a subcategory:", <<>>)
                /\ conv' = [conv EXCEPT ![u] = SUBCATEGORY]
    /\ UNCHANGED <<expenses, next_id>>

get_category(u, text) ==
    /\ UNCHANGED undoing
    /\ conv[u] = CATEGORY
    /\ LET choice == Lower(Strip(text))
       IN  IF choice \notin {needs_, wants_}
           THEN /\ reply' = Reply("get_category", u, "Please choose Needs or Wants.", <<>>)
                /\ UNCHANGED <<conv, user_data>>
           ELSE /\ user_data' = [user_data EXCEPT ![u].cat = choice]
                /\ reply' = Reply("get_category", u, "Pick a subcategory:", <<>>)
                /\ conv' = [conv EXCEPT ![u] = SUBCATEGORY]
    /\ UNCHANGED <<expenses, next_id>>

\* save_expense that clears user_data also when it raises.
save_expense_finally(handler, u, ud, db_ok) ==
    LET stored == NumericStore(ud.amount)
        shown  == _fmt_money(ud.amount)
    IN  IF ud.cat = None \/ ud.subcat = None \/ ud.amount = NoAmount
        THEN /\ user_data' = [user_data EXCEPT ![u] = EmptyUserData]
             /\ reply' = Raised(handler, u)
             /\ UNCHANGED <<conv, expenses, next_id>>
        ELSE IF ~(db_ok /\ stored.ok)
        THEN /\ user_data' = [user_data EXCEPT ![u] = EmptyUserData]
             /\ reply' = Raised(handler, u)
             /\ UNCHANGED <<conv, expenses, next_id>>
        ELSE /\ expenses' = Append(expenses,
                                   Row(next_id, u, ud.cat, ud.subcat, stored.cents, ud.label))
             /\ next_id' = next_id + 1
             /\ user_data' = [user_data EXCEPT ![u] = EmptyUserData]
             /\ IF shown.raises
                THEN /\ reply' = Raised(handler, u)
                     /\ UNCHANGED conv
                ELSE /\ reply' = Reply(handler, u, "Logged",
                                       <<shown.cents, ud.cat, ud.subcat, ud.label>>)
                     /\ conv' = [conv EXCEPT ![u] = END]

\* save_expense without the final user_data.clear().
save_expense_keep(handler, u, ud, db_ok) ==
    LET stored == NumericStore(ud.amount)
        shown  == _fmt_money(ud.amount)
    IN  IF ud.cat = None \/ ud.subcat = None \/ ud.amount = NoAmount
        THEN /\ user_data' = [user_data EXCEPT ![u] = ud]
             /\ reply' = Raised(handler, u)
             /\ UNCHANGED <<conv, expenses, next_id>>
        ELSE IF ~(db_ok /\ stored.ok)
        THEN /\ user_data' = [user_data EXCEPT ![u] = ud]
             /\ reply' = Raised(handler, u)
             /\ UNCHANGED <<conv, expenses, next_id>>
        ELSE /\ expenses' = Append(expenses,
                                   Row(next_id, u, ud.cat, ud.subcat, stored.cents, ud.label))
             /\ next_id' = next_id + 1
             /\ user_data' = [user_data EXCEPT ![u] = ud]
             /\ IF shown.raises
                THEN /\ reply' = Raised(handler, u)
                     /\ UNCHANGED conv
                ELSE /\ reply' = Reply(handler, u, "Logged",
                                       <<shown.cents, ud.cat, ud.subcat, ud.label>>)
                     /\ conv' = [conv EXCEPT ![u] = END]

\* save_expense for user u whose user_data is ud (what the calling handler
\* has made of it); handler names the caller.  It raises on a missing key
\* and when the INSERT fails, and then nothing it would do later happens.
save_expense(handler, u, ud, db_ok) ==
    LET stored == NumericStore(ud.amount)
        shown  == _fmt_money(ud.amount)
    IN  IF ud.cat = None \/ ud.subcat = None \/ ud.amount = NoAmount
        THEN /\ user_data' = [user_data EXCEPT ![u] = ud]
             /\ reply' = Raised(handler, u)
             /\ UNCHANGED <<conv, expenses, next_id>>
        ELSE IF ~(db_ok /\ stored.ok)
        THEN /\ user_data' = [user_data EXCEPT ![u] = ud]
             /\ reply' = Raised(handler, u)
             /\ UNCHANGED <<conv, expenses, next_id>>
        ELSE /\ expenses' = Append(expenses,
                                   Row(next_id, u, ud.cat, ud.subcat, stored.cents, ud.label))
             /\ next_id' = next_id + 1
             /\ IF shown.raises
                THEN /\ user_data' = [user_data EXCEPT ![u] = ud]
                     /\ reply' = Raised(handler, u)
                     /\ UNCHANGED conv
                ELSE /\ user_data' = [user_data EXCEPT ![u] = EmptyUserData]
                     /\ reply' = Reply(handler, u, "Logged",
                                       <<shown.cents, ud.cat, ud.subcat, ud.label>>)
                     /\ conv' = [conv EXCEPT ![u] = END]

get_subcategory(u, text, db_ok) ==
    /\ UNCHANGED undoing
    /\ conv[u] = SUBCATEGORY
    /\ LET sub   == Strip(text)
           cat   == user_data[u].cat
           valid == ValidSubcats(cat)
       IN  IF cat = None \/ user_data[u].amount = NoAmount
           THEN /\ reply' = Raised("get_subcategory", u)
                /\ UNCHANGED <<conv, user_data, expenses, next_id>>
           ELSE IF sub = BackToken
           THEN /\ reply' = Reply("get_subcategory", u, "Choose again: Needs or Wants?", <<>>)
                /\ conv' = [conv EXCEPT ![u] = CATEGORY]
                /\ UNCHANGED <<user_data, expenses, next_id>>
           ELSE IF ~InList(sub, valid)
           THEN /\ reply' = Reply("get_subcategory", u, "Please pick from the buttons.", <<>>)
                /\ UNCHANGED <<conv, user_data, expenses, next_id>>
           ELSE IF StartsWith(sub, MiscPrefix)
           THEN /\ user_data' = [user_data EXCEPT ![u].subcat = sub]
                /\ reply' = Reply("get_subcategory", u, "Enter a short label for this Misc item:", <<>>)
                /\ conv' = [conv EXCEPT ![u] = LABEL]
                /\ UNCHANGED <<expenses, next_id>>
           ELSE save_expense("get_subcategory", u,
                             [user_data[u] EXCEPT !.subcat = sub], db_ok)

get_label(u, text, db_ok) ==
    /\ UNCHANGED undoing
    /\ conv[u] = LABEL
    /\ save_expense("get_label", u, [user_data[u] EXCEPT !.label = Strip(text)], db_ok)

(***************************************************************************)
(* Commands.                                                               *)
(***************************************************************************)
summary(handler, u, cat, db_ok) ==
    /\ UNCHANGED undoing
    /\ LET rows   == GroupBySubcategory(expenses, u, cat)
           target == IF cat = needs_ THEN NEEDS_TARGET ELSE WANTS_TARGET
           RECURSIVE Total(_)
           Total(rs) == IF rs = {} THEN 0
                        ELSE LET r == CHOOSE x \in rs : TRUE
                             IN  r[2] + Total(rs \ {r})
       IN  IF ~db_ok
           THEN reply' = Raised(handler, u)
           ELSE IF rows = {}
           THEN reply' = Reply(handler, u, "No expenses yet.", <<>>)
           ELSE reply' = Reply(handler, u, "summary",
                               << { <<r[1], _fmt_money(FromStore(r[2])).cents>> : r \in rows },
                                  _fmt_money(FromStore(Total(rows))).cents,
                                  _fmt_money(Finite(0, target, 0)).cents >>)
    /\ UNCHANGED <<conv, user_data, expenses, next_id>>

needs(u, db_ok) == summary("needs", u, needs_, db_ok)

wants(u, db_ok) == summary("wants", u, wants_, db_ok)

undo(u, select_ok, delete_ok) ==
    /\ UNCHANGED undoing
    /\ LET i == SelectLast(expenses, u)
       IN  IF ~select_ok
           THEN /\ reply' = Raised("undo", u)
                /\ UNCHANGED expenses
           ELSE IF i = 0
           THEN /\ reply' = Reply("undo", u, "Nothing to undo.", <<>>)
                /\ UNCHANGED expenses
           ELSE IF ~delete_ok
           THEN /\ reply' = Raised("undo", u)
                /\ UNCHANGED expenses
           ELSE /\ expenses' = DeleteId(expenses, expenses[i].id)
                /\ reply' = Reply("undo", u, "Removed last entry",
                                  <<_fmt_money(FromStore(expenses[i].amount)).cents,
                                    expenses[i].category, expenses[i].subcategory>>)
    /\ UNCHANGED <<conv, user_data, next_id>>

\* The first store call of undo, run by task t for user u: the SELECT and
\* the answer when it finds no row.
undo_select(t, u, select_ok) ==
    /\ undoing[t] = NoUndo
    /\ LET i == SelectLast(expenses, u)
       IN  IF ~select_ok
           THEN /\ reply' = Raised("undo", u)
                /\ UNCHANGED undoing
           ELSE IF i = 0
           THEN /\ reply' = Reply("undo", u, "Nothing to undo.", <<>>)
                /\ UNCHANGED undoing
           ELSE /\ undoing' = [undoing EXCEPT ![t] = <<expenses[i]>>]
                /\ UNCHANGED reply
    /\ UNCHANGED <<conv, user_data, expenses, next_id>>

\* The rest of the undo task t holds: the DELETE of the selected id and
\* the answer, which shows the selected row.
undo_delete(t, delete_ok) ==
    /\ undoing[t] # NoUndo
    /\ LET row == undoing[t][1]
       IN  IF ~delete_ok
           THEN /\ reply' = Raised("undo", row.user_id)
                /\ UNCHANGED expenses
           ELSE /\ expenses' = DeleteId(expenses, row.id)
                /\ reply' = Reply("undo", row.user_id, "Removed last entry",
                                  <<_fmt_money(FromStore(row.amount)).cents,
                                    row.category, row.subcategory>>)
    /\ undoing' = [undoing EXCEPT ![t] = NoUndo]
    /\ UNCHANGED <<conv, user_data, next_id>>

\* restart that also drops the user's conversation and user_data.
restart_session(u, db_ok) ==
    /\ UNCHANGED undoing
    /\ IF ~db_ok
       THEN /\ reply' = Raised("restart", u)
            /\ UNCHANGED <<expenses, conv, user_data>>
       ELSE /\ expenses' = DeleteUser(expenses, u)
            /\ reply' = Reply("restart", u, "All your data cleared.", <<>>)
            /\ conv' = [conv EXCEPT ![u] = END]
            /\ user_data' = [user_data EXCEPT ![u] = EmptyUserData]
    /\ UNCHANGED next_id

restart(u, db_ok) ==
    /\ UNCHANGED undoing
    /\ IF ~db_ok
       THEN /\ reply' = Raised("restart", u)
            /\ UNCHANGED expenses
       ELSE /\ expenses' = DeleteUser(expenses, u)
            /\ reply' = Reply("restart", u, "All your data cleared.", <<>>)
    /\ UNCHANGED <<conv, user_data, next_id>>

\* menu registered ahead of the conversation: it answers in every state.
menu_first(u, text) ==
    /\ UNCHANGED undoing
    /\ reply' = Reply("menu", u, "MENU_TEXT", <<>>)
    /\ UNCHANGED <<conv, user_data, expenses, next_id>>

\* Free text outside a conversation.
menu(u, text) ==
    /\ UNCHANGED undoing
    /\ conv[u] = END
    /\ reply' = Reply("menu", u, "MENU_TEXT", <<>>)
    /\ UNCHANGED <<conv, user_data, expenses, next_id>>

(***************************************************************************)
(* Specifications.  Spec follows one user's conversation over the whole    *)
(* input sets; SpecUsers lets every user act, over the narrower input      *)
(* sets below.  In both, any store call may fail, and the SERIAL sequence  *)
(* is cut off at a bound.                                                  *)
(***************************************************************************)
DialogueUsers == {1}

Next ==
    \E u \in DialogueUsers :
        \/ start(u)
        \/ \E text \in AmountTexts : get_amount(u, text)
        \/ \E text \in CategoryTexts : get_category(u, text)
        \/ \E text \in SubcategoryTexts, db_ok \in BOOLEAN :
              get_subcategory(u, text, db_ok) /\ next_id' <= MaxId + 1
        \/ \E text \in LabelTexts, db_ok \in BOOLEAN :
              get_label(u, text, db_ok) /\ next_id' <= MaxId + 1
        \/ \E db_ok \in BOOLEAN : needs(u, db_ok)
        \/ \E db_ok \in BOOLEAN : wants(u, db_ok)
        \/ \E select_ok \in BOOLEAN, delete_ok \in BOOLEAN : undo(u, select_ok, delete_ok)
        \/ \E db_ok \in BOOLEAN : restart(u, db_ok)
        \/ \E text \in MenuTexts : menu(u, text)

Spec == Init /\ [][Next]_vars

AmountTextsUsers == { <<"1","2",".","5">>, <<"0">> }

CategoryTextsUsers == { <<"N","e","e","d","s">>, <<"F","o","o","d">> }

SubcategoryTextsUsers ==
    { <<" ","M","i","s","c"," ","N","e","e","d","s">>, BackToken }

NextUsers ==
    \E u \in Users :
        \/ start(u)
        \/ \E text \in AmountTextsUsers : get_amount(u, text)
        \/ \E text \in CategoryTextsUsers : get_category(u, text)
        \/ \E text \in SubcategoryTextsUsers, db_ok \in BOOLEAN :
              get_subcategory(u, text, db_ok) /\ next_id' <= MaxIdUsers + 1
        \/ \E text \in LabelTexts, db_ok \in BOOLEAN :
              get_label(u, text, db_ok) /\ next_id' <= MaxIdUsers + 1
        \/ \E db_ok \in BOOLEAN : needs(u, db_ok)
        \/ \E db_ok \in BOOLEAN : wants(u, db_ok)
        \/ \E select_ok \in BOOLEAN, delete_ok \in BOOLEAN : undo(u, select_ok, delete_ok)
        \/ \E db_ok \in BOOLEAN : restart(u, db_ok)
        \/ \E text \in MenuTexts : menu(u, text)

SpecUsers == Init /\ [][NextUsers]_vars

(***************************************************************************)
(* SpecLedger: the commands over a table that already holds rows when the  *)
(* process starts (init_db keeps an existing table), every user outside a  *)
(* conversation.  The rows are entries earlier commits have stored.        *)
(***************************************************************************)
MaxRows == 3

\* Entries of earlier commits: user, category, subcategory, amount in cents.
LedgerEntries ==
    { <<1, needs_, NEEDS_SUBCATS[1], 1000>>,
      <<1, needs_, NEEDS_SUBCATS[1], 550>>,
      <<1, needs_, NEEDS_SUBCATS[3], 200>>,
      <<1, wants_, WANTS_SUBCATS[3], 1250>>,
      <<2, needs_, NEEDS_SUBCATS[1], 1000>>,
      <<2, wants_, WANTS_SUBCATS[3], 550>> }

InitLedger ==
    /\ conv = [u \in Users |-> END]
    /\ user_data = [u \in Users |-> EmptyUserData]
    /\ \E n \in 0..MaxRows : \E f \in [1..n -> LedgerEntries] :
          /\ expenses = [i \in 1..n |-> Row(i, f[i][1], f[i][2], f[i][3], f[i][4], None)]
          /\ next_id = n + 1
    /\ reply = Reply("", 0, "", <<>>)
    /\ undoing = [t \in Tasks |-> NoUndo]

NextLedger ==
    \E u \in Users :
        \/ \E db_ok \in BOOLEAN : needs(u, db_ok)
        \/ \E db_ok \in BOOLEAN : wants(u, db_ok)
        \/ \E select_ok \in BOOLEAN, delete_ok \in BOOLEAN : undo(u, select_ok, delete_ok)
        \/ \E db_ok \in BOOLEAN : restart(u, db_ok)
        \/ \E text \in MenuTexts : menu(u, text)

SpecLedger == InitLedger /\ [][NextLedger]_vars

(***************************************************************************)
(* SpecAmounts: one user's conversation over amounts with one, two and     *)
(* three fractional digits, committed under one category and subcategory,  *)
(* with the commands that show what is stored.                             *)
(***************************************************************************)
AmountTextsDigits ==
    { <<"1","2",".","5">>,
      <<"0",".","1","2","5">>,
      <<"0",".","1","2","6">>,
      <<" ","7"," ">>,
      <<"0">> }

CategoryTextsAmounts == { <<"N","e","e","d","s">> }

SubcategoryTextsAmounts == { <<"F","o","o","d">> }

NextAmounts ==
    \E u \in DialogueUsers :
        \/ start(u)
        \/ \E text \in AmountTextsDigits : get_amount(u, text)
        \/ \E text \in CategoryTextsAmounts : get_category(u, text)
        \/ \E text \in SubcategoryTextsAmounts, db_ok \in BOOLEAN :
              get_subcategory(u, text, db_ok) /\ next_id' <= MaxId + 1
        \/ \E db_ok \in BOOLEAN : needs(u, db_ok)
        \/ \E select_ok \in BOOLEAN, delete_ok \in BOOLEAN : undo(u, select_ok, delete_ok)

SpecAmounts == Init /\ [][NextAmounts]_vars

(***************************************************************************)
(* SpecInterleaved: updates handled concurrently.  Every handler but undo  *)
(* makes at most one store call, which is where its step takes effect;     *)
(* undo is its two store calls, and any step may come between them.  The   *)
(* store serves every call.                                                *)
(***************************************************************************)
AmountTextsInterleaved == { <<"1","2",".","5">> }

NextInterleaved ==
    \E u \in Users :
        \/ start(u)
        \/ \E text \in AmountTextsInterleaved : get_amount(u, text)
        \/ \E text \in CategoryTextsAmounts : get_category(u, text)
        \/ \E text \in SubcategoryTextsAmounts :
              get_subcategory(u, text, TRUE) /\ next_id' <= MaxIdUsers + 1
        \/ \E t \in Tasks : undo_select(t, u, TRUE)
        \/ \E t \in Tasks : undo_delete(t, TRUE) /\ undoing[t][1].user_id = u
        \/ restart(u, TRUE)

SpecInterleaved == Init /\ [][NextInterleaved]_vars

(***************************************************************************)
(* Properties.                                                             *)
(***************************************************************************)
\* seq without its i-th element.
RemoveAt(seq, i) == SubSeq(seq, 1, i - 1) \o SubSeq(seq, i + 1, Len(seq))

\* The last update was handled for user u by the named handler.
Handled(r, handler, u) == r.handler = handler /\ r.uid = u

\* C1: every undo the store serves is last-in-first-out per user: when the
\* user has entries it removes exactly the user's entry with the highest
\* id, which is the user's most recently inserted entry still stored, and
\* leaves every other entry as it was; when the user has none it answers
\* "Nothing to undo." and the table is unchanged.
C1_UndoLifo ==
    [][\A u \in Users :
          (Handled(reply', "undo", u) /\ reply'.text # "") =>
             IF RowsOf(expenses, u) = <<>>
             THEN reply'.text = "Nothing to undo." /\ expenses' = expenses
             ELSE /\ reply'.text = "Removed last entry"
                  /\ \E i \in DOMAIN expenses :
                        /\ expenses[i].user_id = u
                        /\ \A j \in DOMAIN expenses :
                              (expenses[j].user_id = u /\ j # i) =>
                                 (j < i /\ expenses[j].id < expenses[i].id)
                        /\ expenses' = RemoveAt(expenses, i)]_vars

\* C1 witness: an undo has removed a user's newest entry and an older entry
\* of the same user is still stored.
C1_Witness ==
    /\ reply.handler = "undo"
    /\ reply.text = "Removed last entry"
    /\ RowsOf(expenses, reply.uid) # <<>>

\* The subcategories that are miscellaneous buckets.
MiscBuckets == { NEEDS_SUBCATS[5], WANTS_SUBCATS[6] }

\* The text names a subcategory listed for the category user u has chosen.
Listed(u, text) ==
    \/ user_data[u].cat = needs_ /\ InList(Strip(text), NEEDS_SUBCATS)
    \/ user_data[u].cat = wants_ /\ InList(Strip(text), WANTS_SUBCATS)

\* The step is a commit of user u whose INSERT the store refuses: a listed
\* non-miscellaneous subcategory in SUBCATEGORY, or any label in LABEL.
FailedCommit(u) ==
    \/ \E text \in SubcategoryTexts :
          /\ Listed(u, text)
          /\ Strip(text) \notin MiscBuckets
          /\ get_subcategory(u, text, FALSE)
    \/ \E text \in LabelTexts : get_label(u, text, FALSE)

\* C2: when the INSERT of a commit fails the user gets a failure message,
\* nothing is persisted, and the session is destroyed: no conversation and
\* no session field left.
C2_FailedCommitDestroysSession ==
    [][\A u \in Users :
          FailedCommit(u) =>
             /\ reply'.uid = u /\ reply'.text # ""
             /\ expenses' = expenses
             /\ conv'[u] = END
             /\ user_data'[u] = EmptyUserData]_vars

\* C3: every stored entry has a label if and only if its subcategory is a
\* miscellaneous bucket (its name starts with "Misc").
C3_LabelIffMisc ==
    \A i \in DOMAIN expenses :
        (expenses[i].label # None) <=> StartsWith(expenses[i].subcategory, MiscPrefix)

\* C4: every stored entry has an amount above zero, as the column keeps it.
C4_StoredAmountPositive ==
    \A i \in DOMAIN expenses : expenses[i].amount > 0

\* C5: every stored entry has category needs or wants and a subcategory of
\* the list of that category.
C5_SubcategoryOfCategory ==
    \A i \in DOMAIN expenses :
        \/ expenses[i].category = needs_ /\ InList(expenses[i].subcategory, NEEDS_SUBCATS)
        \/ expenses[i].category = wants_ /\ InList(expenses[i].subcategory, WANTS_SUBCATS)

\* C5 witness: a commit has just stored an entry of category wants.
C5_Witness ==
    /\ reply.text = "Logged"
    /\ expenses # <<>>
    /\ expenses[Len(expenses)].category = wants_

\* C6: an update of user a leaves the conversation state, the session
\* fields and the stored entries of every other user b as they were.
C6_SessionIsolation ==
    [][\A a \in Users, b \in Users :
          (reply'.uid = a /\ b # a) =>
             /\ conv'[b] = conv[b]
             /\ user_data'[b] = user_data[b]
             /\ RowsOf(expenses', b) = RowsOf(expenses, b)]_vars

\* C6 witness: user 1 has just acted and waits in CATEGORY while user 2 is
\* in SUBCATEGORY and both hold session fields; user 2 has a stored entry.
C6_Witness ==
    /\ reply.uid = 1
    /\ conv[1] = CATEGORY /\ user_data[1].amount # NoAmount
    /\ conv[2] = SUBCATEGORY /\ user_data[2].cat # None
    /\ RowsOf(expenses, 2) # <<>>

\* C7: the back token in SUBCATEGORY moves the user to CATEGORY, clears the
\* chosen category and subcategory, keeps the amount and persists nothing.
C7_BackClearsCategory ==
    [][\A u \in Users :
          (\E db_ok \in BOOLEAN : get_subcategory(u, BackToken, db_ok)) =>
             /\ conv'[u] = CATEGORY
             /\ user_data'[u].cat = None
             /\ user_data'[u].subcat = None
             /\ user_data'[u].amount = user_data[u].amount
             /\ expenses' = expenses]_vars

\* C8: in SUBCATEGORY a listed miscellaneous subcategory moves the user to
\* LABEL and inserts nothing; a listed non-miscellaneous one never leads to
\* LABEL and, when the store takes the INSERT, appends exactly that entry in
\* the same step and ends the conversation; and an entry of a miscellaneous
\* bucket is only ever inserted by the label handler, from LABEL.
C8_MiscBranching ==
    [][/\ \A u \in Users :
            Handled(reply', "get_subcategory", u) =>
               \A text \in SubcategoryTexts, db_ok \in BOOLEAN :
                  (get_subcategory(u, text, db_ok) /\ Listed(u, text)) =>
                     IF Strip(text) \in MiscBuckets
                     THEN conv'[u] = LABEL /\ expenses' = expenses
                     ELSE /\ conv'[u] # LABEL
                          /\ db_ok =>
                               /\ Len(expenses') = Len(expenses) + 1
                               /\ SubSeq(expenses', 1, Len(expenses)) = expenses
                               /\ expenses'[Len(expenses')].user_id = u
                               /\ expenses'[Len(expenses')].subcategory = Strip(text)
                               /\ conv'[u] = END
       /\ (Len(expenses') > Len(expenses)
             /\ expenses'[Len(expenses')].subcategory \in MiscBuckets) =>
              /\ reply'.handler = "get_label"
              /\ conv[expenses'[Len(expenses')].user_id] = LABEL]_vars

\* C8 witness: the label handler has just stored an entry of a
\* miscellaneous bucket.
C8_Witness ==
    /\ reply.handler = "get_label" /\ reply.text = "Logged"
    /\ expenses # <<>>
    /\ expenses[Len(expenses)].subcategory \in MiscBuckets

\* Inputs of the model that are no valid amount: zero, negative, not a number.
InvalidAmountTexts ==
    { <<"0">>, <<"-","3">>, <<"a","b","c">>, <<"I","n","f","i","n","i","t","y">> }

\* Inputs of the model that are no category.
InvalidCategoryTexts == { <<"F","o","o","d">> }

\* The step handles an input that is invalid for the state of user u.
InvalidInput(u) ==
    \/ \E text \in InvalidAmountTexts : get_amount(u, text)
    \/ \E text \in InvalidCategoryTexts : get_category(u, text)
    \/ \E text \in SubcategoryTexts, db_ok \in BOOLEAN :
          /\ ~Listed(u, text)
          /\ Strip(text) # BackToken
          /\ get_subcategory(u, text, db_ok)

\* C9: an input that is invalid for the current state leaves the user in
\* the same state and leaves the session fields and the table unchanged.
C9_InvalidInputChangesNothing ==
    [][\A u \in Users :
          InvalidInput(u) =>
             /\ conv'[u] = conv[u]
             /\ user_data'[u] = user_data[u]
             /\ expenses' = expenses]_vars

\* C10: /start in any state puts the user in AMOUNT, persists nothing and
\* discards the previous session, so that no field of it is left in the new
\* session; and an entry committed straight from SUBCATEGORY carries no
\* label of an earlier session.
C10_StartDiscardsSession ==
    [][\A u \in Users :
          /\ Handled(reply', "start", u) =>
                /\ conv'[u] = AMOUNT
                /\ expenses' = expenses
                /\ user_data'[u] = EmptyUserData
          /\ (Handled(reply', "get_subcategory", u) /\ Len(expenses') > Len(expenses)) =>
                expenses'[Len(expenses')].label = None]_vars


\* C11: a clear-all the store serves always answers that the data is
\* cleared, removes every entry of the issuing user and no entry of any
\* other user, and on a user without entries (a second clear-all among
\* them) it leaves the table as it was.
C11_ClearAll ==
    [][\A u \in Users :
          restart(u, TRUE) =>
             /\ reply'.text = "All your data cleared."
             /\ RowsOf(expenses', u) = <<>>
             /\ \A b \in Users \ {u} : RowsOf(expenses', b) = RowsOf(expenses, b)
             /\ Len(expenses') = Len(expenses) - Len(RowsOf(expenses, u))
             /\ (RowsOf(expenses, u) = <<>> => expenses' = expenses)]_vars

\* A clear-all has removed the rows of its user and another user's rows
\* are still stored.
C11_Witness ==
    /\ reply.handler = "restart"
    /\ reply.text = "All your data cleared."
    /\ RowsOf(expenses, reply.uid) = <<>>
    /\ expenses # <<>>
    /\ Len(expenses) + 2 < next_id


\* The amounts of the rows of table at the indices in S, added up.
RECURSIVE SumOver(_, _)
SumOver(table, S) ==
    IF S = {} THEN 0
    ELSE LET i == CHOOSE x \in S : TRUE
         IN  table[i].amount + SumOver(table, S \ {i})

\* The sums of a set of <<subcategory, sum>> lines, added up.
RECURSIVE SumLines(_)
SumLines(lines) ==
    IF lines = {} THEN 0
    ELSE LET l == CHOOSE x \in lines : TRUE
         IN  l[2] + SumLines(lines \ {l})

\* C12: a summary the store serves for user u and category cat answers
\* "No expenses yet." when u has no entry of cat, and otherwise lists
\* exactly the subcategories in which u has an entry of cat, each once with
\* the exact sum of those entries (entries of other users and of the other
\* category count nowhere), a total that is the sum of the listed sums, and
\* the target 500 for needs and 300 for wants; the table is not changed.
C12_Summary ==
    [][\A u \in Users, cat \in {needs_, wants_} :
          summary(IF cat = needs_ THEN "needs" ELSE "wants", u, cat, TRUE) =>
             LET mine == {i \in DOMAIN expenses :
                             expenses[i].user_id = u /\ expenses[i].category = cat}
                 lines == reply'.shown[1]
             IN  /\ expenses' = expenses
                 /\ IF mine = {}
                    THEN reply'.text = "No expenses yet."
                    ELSE /\ reply'.text = "summary"
                         /\ {l[1] : l \in lines} = {expenses[i].subcategory : i \in mine}
                         /\ Cardinality(lines) = Cardinality({l[1] : l \in lines})
                         /\ \A l \in lines :
                               l[2] = SumOver(expenses, {i \in mine : expenses[i].subcategory = l[1]})
                         /\ reply'.shown[2] = SumLines(lines)
                         /\ reply'.shown[3] = (IF cat = needs_ THEN 50000 ELSE 30000)]_vars

\* A needs summary lists two subcategories while a row it must not count
\* (another user's or a wants row) is stored.
C12_Witness ==
    /\ reply.handler = "needs"
    /\ reply.text = "summary"
    /\ Cardinality(reply.shown[1]) = 2
    /\ \E i \in DOMAIN expenses :
          expenses[i].user_id # reply.uid \/ expenses[i].category # needs_


\* A store call of a summary, an undo or a clear-all of user u fails in this
\* step: the SELECT of a summary, the SELECT of an undo or the DELETE of an
\* undo that has selected a row, the DELETE of a clear-all.
FailedCommand(u) ==
    \/ needs(u, FALSE)
    \/ wants(u, FALSE)
    \/ undo(u, FALSE, TRUE)
    \/ undo(u, TRUE, FALSE) /\ RowsOf(expenses, u) # <<>>
    \/ restart(u, FALSE)

\* C13: when a store call fails during a summary, an undo or a clear-all,
\* the command reports a failure to the user and the stored entries are
\* exactly what they were before the command.
C13_FailedCommandReported ==
    [][\A u \in Users :
          FailedCommand(u) => /\ reply'.text # ""
                              /\ expenses' = expenses]_vars


\* The handler a text that is no command goes to, by conversation state.
TextHandler(state) ==
    CASE state = AMOUNT      -> "get_amount"
      [] state = CATEGORY    -> "get_category"
      [] state = SUBCATEGORY -> "get_subcategory"
      [] state = LABEL       -> "get_label"
      [] OTHER               -> "menu"

\* C14: a text that is no command is handled by the handler of the state
\* the user's conversation is in and never answered with the menu while a
\* conversation is active; without a conversation it is answered with the
\* static menu and changes neither the sessions nor the table.
C14_FreeTextRouting ==
    [][\A u \in Users :
          /\ (/\ reply'.uid = u
              /\ reply'.handler \in {"get_amount", "get_category",
                                     "get_subcategory", "get_label", "menu"})
                => reply'.handler = TextHandler(conv[u])
          /\ (\E text \in MenuTexts : menu(u, text))
                => /\ conv[u] = END
                   /\ reply'.text = "MENU_TEXT"
                   /\ UNCHANGED <<conv, user_data, expenses, next_id>>]_vars

\* After a commit has ended the conversation a text is answered with the
\* menu.
C14_Witness ==
    /\ reply.handler = "menu"
    /\ conv[reply.uid] = END
    /\ expenses # <<>>


\* C15: a summary, an undo or a clear-all issued in any conversation state
\* does its work on the table (an undo removes one row of a user who has
\* rows, a clear-all leaves the user none, a summary leaves the table) and
\* leaves every conversation state and every session field as it was.
C15_CommandsKeepSession ==
    [][\A u \in Users :
          (reply'.uid = u /\ reply'.handler \in {"needs", "wants", "undo", "restart"})
             => /\ conv' = conv
                /\ user_data' = user_data
                /\ reply'.handler \in {"needs", "wants"} => expenses' = expenses
                /\ (undo(u, TRUE, TRUE) /\ RowsOf(expenses, u) # <<>>)
                      => Len(expenses') = Len(expenses) - 1
                /\ restart(u, TRUE) => RowsOf(expenses', u) = <<>>]_vars

\* An undo has removed an entry while its user is asked for the label of
\* the next one, amount, category and subcategory still in the session.
C15_Witness ==
    /\ reply.handler = "undo"
    /\ reply.text = "Removed last entry"
    /\ conv[reply.uid] = LABEL
    /\ user_data[reply.uid].amount # NoAmount
    /\ user_data[reply.uid].cat # None
    /\ user_data[reply.uid].subcat # None


\* The text is a decimal number above zero.
PositiveDecimal(text) ==
    LET d == ParseDecimal(text)
    IN  d.special = "" /\ d.sign = 0 /\ d.coef > 0

\* C16: every text that is a decimal number above zero is accepted in
\* AMOUNT (the conversation moves to CATEGORY with the amount stored in the
\* session), and the amount a commit confirms is the amount it has stored,
\* which an undo afterwards shows again.
C16_AmountRoundTrip ==
    [][\A u \in Users :
          /\ \A text \in AmountTextsDigits :
                (get_amount(u, text) /\ PositiveDecimal(text))
                   => /\ conv'[u] = CATEGORY
                      /\ user_data'[u].amount = ParseDecimal(text)
          /\ (reply'.uid = u /\ reply'.text = "Logged" /\ Len(expenses') > Len(expenses))
                => reply'.shown[1] = expenses'[Len(expenses')].amount]_vars


\* C17: rows are inserted only by the commit of a conversation, one row a
\* commit: the row carries the issuing user's id and the amount (as the
\* NUMERIC column keeps it), category, subcategory and label the user's
\* session holds at that moment, the text just entered included; the
\* commit confirms the row and destroys the session; stored rows are never
\* altered; and a user without a conversation inserts nothing.
C17_CommitInsertsSession ==
    [][/\ Len(expenses') > Len(expenses) =>
             \E u \in Users :
                LET row == expenses'[Len(expenses')]
                    ud  == user_data[u]
                IN  /\ expenses' = Append(expenses, row)
                    /\ reply'.uid = u
                    /\ row.id = next_id
                    /\ row.user_id = u
                    /\ row.amount = NumericStore(ud.amount).cents
                    /\ row.category = ud.cat
                    /\ \/ /\ conv[u] = SUBCATEGORY
                          /\ reply'.handler = "get_subcategory"
                          /\ row.subcategory \in {Strip(text) : text \in SubcategoryTexts}
                          /\ row.label = ud.label
                       \/ /\ conv[u] = LABEL
                          /\ reply'.handler = "get_label"
                          /\ row.subcategory = ud.subcat
                          /\ row.label \in {Strip(text) : text \in LabelTexts}
                    /\ reply'.text = "Logged"
                    /\ reply'.shown[2] = row.category
                    /\ reply'.shown[3] = row.subcategory
                    /\ reply'.shown[4] = row.label
                    /\ conv'[u] = END
                    /\ user_data'[u] = EmptyUserData
       /\ \A i \in DOMAIN expenses', j \in DOMAIN expenses :
             expenses'[i].id = expenses[j].id => expenses'[i] = expenses[j]
       /\ \A u \in Users :
             (conv[u] = END /\ reply'.uid = u) => Len(expenses') <= Len(expenses)]_vars

\* A commit from LABEL has stored the session's Misc entry with the label
\* just entered and has destroyed the session.
C17_Witness ==
    /\ reply.handler = "get_label"
    /\ reply.text = "Logged"
    /\ expenses # <<>>
    /\ expenses[Len(expenses)].user_id = reply.uid
    /\ expenses[Len(expenses)].subcategory \in MiscBuckets
    /\ expenses[Len(expenses)].label = <<"l","u","n","c","h">>
    /\ conv[reply.uid] = END
    /\ user_data[reply.uid] = EmptyUserData


\* C18: in every reachable state a user in CATEGORY has an amount in the
\* session, a user in SUBCATEGORY an amount and a category, and a user in
\* LABEL an amount, a category and a subcategory, so no handler reads a
\* field that is missing.
C18_StateFields ==
    \A u \in Users :
        /\ conv[u] \in {CATEGORY, SUBCATEGORY, LABEL} => user_data[u].amount # NoAmount
        /\ conv[u] \in {SUBCATEGORY, LABEL} => user_data[u].cat # None
        /\ conv[u] = LABEL => user_data[u].subcat # None

\* A commit from LABEL has failed: the user is still in LABEL and the
\* session still holds amount, category and subcategory.
C18_Witness ==
    /\ reply.handler = "get_label"
    /\ reply.text = ""
    /\ conv[reply.uid] = LABEL
    /\ user_data[reply.uid].amount # NoAmount
    /\ user_data[reply.uid].cat # None
    /\ user_data[reply.uid].subcat # None


\* C19: every stored category is the lower-case token needs or wants, so
\* for every user the total of the needs summary plus the total of the
\* wants summary is the sum of the amounts of all the user's entries.
C19_CategoryTotals ==
    /\ \A i \in DOMAIN expenses : expenses[i].category \in {needs_, wants_}
    /\ \A u \in Users :
          SumLines(GroupBySubcategory(expenses, u, needs_))
            + SumLines(GroupBySubcategory(expenses, u, wants_))
          = SumAmount(RowsOf(expenses, u))

\* An entry entered under a category typed with capitals or blanks is
\* stored with a positive amount.
C19_Witness ==
    \E i \in DOMAIN expenses :
        /\ expenses[i].amount > 0
        /\ expenses[i].category \in {Lower(Strip(text)) : text \in CategoryTexts}
        /\ expenses[i].category \notin CategoryTexts


\* Task t runs the DELETE of its undo in this step.
UndoDeletes(t) == undoing[t] # NoUndo /\ undoing'[t] = NoUndo

\* The row an undo has selected is stored in table at index i and is the
\* highest-id row of its user there.
StillLast(table, row, i) ==
    /\ table[i] = row
    /\ \A j \in DOMAIN table :
          table[j].user_id = row.user_id => table[j].id <= row.id

=============================================================================
